---- MODULE Spec2Model ----
(***************************************************************************)
(* WAV-Optimizer (src/src/main.rs): the per-file pipeline of               *)
(* WavProcessor::process_wav.  A decoded, interleaved sample stream is     *)
(* de-interleaved, trailing silence is trimmed, and, when auto-cut is      *)
(* enabled, silence ranges are detected per channel, reconciled across     *)
(* channels, filtered and used to slice the audio into segments that are   *)
(* handed to save_new_wav.                                                 *)
(*                                                                         *)
(* Sample indices and ranges are 0-based as in the source; TLA+ sequences  *)
(* are 1-based, so the sample at source index i of channel ch is ch[i+1].  *)
(***************************************************************************)
EXTENDS Integers, Sequences, FiniteSets, TLC

VARIABLES
    pc,                          \* position inside process_wav
    samples,                     \* the interleaved samples read from the file
    num_channels,                \* reader.spec().channels
    deviation,                   \* the threshold passed to process_wav
    auto_cut,                    \* self.auto_cut.is_some()
    min_silence_len,             \* get_sample_len_from_ms(ac.min_silence_length_ms, rate)
    min_sample_len,              \* get_sample_len_from_ms(ac.min_length_per_sample_ms, rate)
    overflow_checks,             \* the build panics on integer overflow (dev profile) or wraps
    channels,                    \* the de-interleaved channels
    non_zeroes,                  \* last non-silent index of every channel
    new_channels,                \* the surviving, truncated channels
    silence_ranges_per_channel,  \* detector output of the channels that have ranges
    most_silences_vec,           \* the base list chosen by the merger
    silence_ranges,              \* Option<Vec<(usize, usize)>> of get_silence_ranges
    has_cut,                     \* result of try_saving_auto_cuts: "none", "ok", "err"
    saved,                       \* the calls of save_new_wav, in order
    filter,                      \* what the filters of try_saving_auto_cuts did
    bits,                        \* reader.spec().bits_per_sample, the argument of int_bit_to_max
    signed,                      \* the argument of int_bit_to_max
    bit_max,                     \* Option<u64>: what int_bit_to_max returned
    max_magnitude,               \* Option: the factor of the threshold in setup_wav_processing
    reader_ok,                   \* WavReader::open(path) returned Ok
    sample_format,               \* reader.spec().sample_format: "Int" or "Float"
    deviation_shift,             \* self.deviation_normalized is 2^-deviation_shift
    delete_empty,                \* self.delete_empty
    overwrite_input,             \* self.overwrite_input
    create_subdirectory,         \* ac.create_subdirectory
    delete_original,             \* ac.delete_original
    remove_fails,                \* the file system refuses fs::remove_file in this run
    create_dir_fails,            \* the file system refuses create_dir in this run
    wav_suffix,                  \* the file name ends in ".wav", in lower case
    fs                           \* the input file, the subdirectory and the outputs on disk

vars == << pc, samples, num_channels, deviation, auto_cut, min_silence_len,
           min_sample_len, overflow_checks, channels, non_zeroes, new_channels,
           silence_ranges_per_channel, most_silences_vec, silence_ranges,
           has_cut, saved, filter, bits, signed, bit_max, max_magnitude,
           reader_ok, sample_format, deviation_shift,
           delete_empty, overwrite_input, create_subdirectory, delete_original,
           remove_fails, create_dir_fails, wav_suffix, fs >>

\* the state of setup_wav_processing and int_bit_to_max
setup == << bits, signed, bit_max, max_magnitude, reader_ok, sample_format,
           deviation_shift >>

inputs == << samples, num_channels, deviation, auto_cut, min_silence_len,
             min_sample_len, overflow_checks, delete_empty, overwrite_input,
             create_subdirectory, delete_original, remove_fails, create_dir_fails,
             wav_suffix >>

(***************************************************************************)
(* Bounds of the model.                                                    *)
(***************************************************************************)
MaxAmp == 1          \* samples and thresholds of InitAmplitudes lie in -MaxAmp..MaxAmp
MaxFlatAmp == 4      \* longest interleaved stream of InitAmplitudes
MaxFlat == 9         \* longest interleaved stream of InitSilences
MaxCh == 3           \* most channels
MaxMinSilence == 1   \* largest silence_min_length_samples
MaxMinSample == 3    \* largest segment_min_length_samples
MaxBits == 32        \* largest bits_per_sample
MaxShift == 2        \* smallest deviation_normalized is 2^-MaxShift
MaxFlatFiles == 4    \* longest interleaved stream of InitFiles

(***************************************************************************)
(* Helpers on sequences.                                                   *)
(***************************************************************************)
Max(a, b) == IF a >= b THEN a ELSE b

Min(a, b) == IF a <= b THEN a ELSE b

\* Vec::truncate(len): keeps the first len elements, no effect when len >= v.len().
Truncate(v, len) == SubSeq(v, 1, Min(len, Len(v)))

\* Vec::remove(index) for an index in bounds.
RemoveAt(v, index) == SubSeq(v, 1, index) \o SubSeq(v, index + 2, Len(v))

\* Option<Vec<(usize, usize)>>
None == [is_some |-> FALSE, v |-> << >>]

Some(v) == [is_some |-> TRUE, v |-> v]

(***************************************************************************)
(* process_wav, lines 79-95: de-interleaving.  Channel channel_idx gets    *)
(* the samples whose flat index i has i % num_channels = channel_idx.      *)
(***************************************************************************)
DeinterleaveByBlocks(flat, n) ==
    [c \in 1..n |->
        [k \in 1..(Len(flat) \div n) |-> flat[(c - 1) * (Len(flat) \div n) + k]]]

Deinterleave(flat, n) ==
    [c \in 1..n |->
        LET idx == { i \in 0..(Len(flat) - 1) : i % n = c - 1 }
        IN  [k \in 1..Cardinality(idx) |-> flat[(k - 1) * n + (c - 1) + 1]]]

(***************************************************************************)
(* process_wav, lines 100-112: the last non-silent index of a channel, 0   *)
(* when no sample is over the threshold.                                   *)
(***************************************************************************)
IsLoudInclusive(sample, dev) == sample >= dev \/ sample <= -dev

IsLoud(sample, dev) == sample > dev \/ sample < -dev

\* lines 105-109: the loop body for the sample at index i
LastNonZeroStep(channel, dev, last, i) ==
    IF IsLoud(channel[i + 1], dev) THEN i ELSE last

\* the loop over the indices lo..hi in ascending order, split in halves
RECURSIVE LastNonZeroLoop(_, _, _, _, _)
LastNonZeroLoop(channel, dev, last, lo, hi) ==
    IF lo > hi THEN last
    ELSE IF lo = hi THEN LastNonZeroStep(channel, dev, last, lo)
    ELSE LET mid == (lo + hi) \div 2
         IN  LastNonZeroLoop(channel, dev,
                             LastNonZeroLoop(channel, dev, last, lo, mid), mid + 1, hi)

LastNonZero(channel, dev) == LastNonZeroLoop(channel, dev, 0, 0, Len(channel) - 1)

NonZeroes(chs, dev) == [c \in 1..Len(chs) |-> LastNonZero(chs[c], dev)]

(***************************************************************************)
(* process_wav, lines 115-129: channels whose last non-silent index is 0   *)
(* are skipped, the others are truncated to max(non_zeroes) + 1 samples.   *)
(***************************************************************************)
RECURSIVE KeepNonEmpty(_, _, _)
KeepNonEmpty(chs, nz, i) ==
    IF i > Len(chs) THEN << >>
    ELSE IF nz[i] = 0 THEN KeepNonEmpty(chs, nz, i + 1)
    ELSE << chs[i] >> \o KeepNonEmpty(chs, nz, i + 1)

RECURSIVE SeqMax(_, _)
SeqMax(s, i) == IF i > Len(s) THEN 0 ELSE Max(s[i], SeqMax(s, i + 1))

TruncatedLenOffByOne(max_non_zero) == max_non_zero

TruncatedLen(max_non_zero) == max_non_zero + 1

TrimChannels(chs, nz) ==
    LET kept == KeepNonEmpty(chs, nz, 1)
        max_non_zero == SeqMax(nz, 1)
    IN  [c \in 1..Len(kept) |-> Truncate(kept[c], TruncatedLen(max_non_zero))]

(***************************************************************************)
(* get_silence_ranges, lines 178-207: the per-channel detector.  A run of  *)
(* silent samples [silence_start, silence_end] (inclusive) is pushed when  *)
(* a non-silent sample follows it and                                      *)
(* silence_end - silence_start >= silence_min_length_samples.  A run still *)
(* open at the end of the channel is not pushed.                           *)
(***************************************************************************)
InMargin(silence_start, silence_end, min_len) ==
    silence_end - silence_start >= min_len

\* lines 183-202: the loop body for the sample at index i
DetectStep(channel, dev, min_len, st, i) ==
    IF ~IsLoud(channel[i + 1], dev)
    THEN IF ~st.is_checking_silence
         THEN [st EXCEPT !.silence_start = i, !.silence_end = i, !.is_checking_silence = TRUE]
         ELSE [st EXCEPT !.silence_end = i]
    ELSE IF st.is_checking_silence
         THEN [st EXCEPT !.is_checking_silence = FALSE,
                         !.silence_ranges_vec =
                             IF InMargin(st.silence_start, st.silence_end, min_len)
                             THEN Append(@, << st.silence_start, st.silence_end >>)
                             ELSE @]
         ELSE st

\* the loop over the indices lo..hi in ascending order, split in halves
RECURSIVE DetectLoop(_, _, _, _, _, _)
DetectLoop(channel, dev, min_len, st, lo, hi) ==
    IF lo > hi THEN st
    ELSE IF lo = hi THEN DetectStep(channel, dev, min_len, st, lo)
    ELSE LET mid == (lo + hi) \div 2
             left == DetectLoop(channel, dev, min_len, st, lo, mid)
         IN  \* the test is always true: it has the first half evaluated before the second
             IF left.silence_end <= mid
             THEN DetectLoop(channel, dev, min_len, left, mid + 1, hi)
             ELSE left

DetectChannel(channel, dev, min_len) ==
    DetectLoop(channel, dev, min_len,
               [silence_start |-> 0, silence_end |-> 0, is_checking_silence |-> FALSE,
                silence_ranges_vec |-> << >>],
               0, Len(channel) - 1).silence_ranges_vec

\* lines 204-206: only channels with at least one range are pushed.
RECURSIVE DetectAll(_, _, _, _)
DetectAll(chs, dev, min_len, c) ==
    IF c > Len(chs) THEN << >>
    ELSE LET r == DetectChannel(chs[c], dev, min_len)
         IN  (IF Len(r) > 0 THEN << r >> ELSE << >>) \o DetectAll(chs, dev, min_len, c + 1)

(***************************************************************************)
(* get_silence_ranges, lines 211-244: the cross-channel merger.            *)
(***************************************************************************)
\* Iterator::max_by_key returns the last element when several are maximal.
RECURSIVE MaxLenOf(_, _)
MaxLenOf(per, k) == IF k > Len(per) THEN 0 ELSE Max(Len(per[k]), MaxLenOf(per, k + 1))

FirstMostSilences(per) ==
    per[CHOOSE k \in 1..Len(per) :
            /\ Len(per[k]) = MaxLenOf(per, 1)
            /\ \A j \in 1..(k - 1) : Len(per[j]) # MaxLenOf(per, 1)]

MostSilences(per) ==
    per[CHOOSE k \in 1..Len(per) :
            /\ Len(per[k]) = MaxLenOf(per, 1)
            /\ \A j \in (k + 1)..Len(per) : Len(per[j]) # MaxLenOf(per, 1)]

AdjustUnion(this_silence, other_silence) ==
    << Min(this_silence[1], other_silence[1]), Max(this_silence[2], other_silence[2]) >>

\* lines 232-233 for one other_silence: the two assignments, the second
\* reading the start the first may have written.
Adjust(this_silence, other_silence) ==
    LET hit0 == other_silence[1] >= this_silence[1] /\ other_silence[1] <= this_silence[2]
        t0 == IF hit0 THEN << other_silence[1], this_silence[2] >> ELSE this_silence
        hit1 == other_silence[2] >= t0[1] /\ other_silence[2] <= t0[2]
    IN  IF hit1 THEN << t0[1], other_silence[2] >> ELSE t0

Found(this_silence, other_silence) ==
    LET hit0 == other_silence[1] >= this_silence[1] /\ other_silence[1] <= this_silence[2]
        t0 == IF hit0 THEN << other_silence[1], this_silence[2] >> ELSE this_silence
        hit1 == other_silence[2] >= t0[1] /\ other_silence[2] <= t0[2]
    IN  hit0 \/ hit1

\* lines 230-235: the scan of one other_vec stops at the first range found.
RECURSIVE ScanOtherVec(_, _, _)
ScanOtherVec(this_silence, other_vec, j) ==
    IF j > Len(other_vec) THEN this_silence
    ELSE IF Found(this_silence, other_vec[j]) THEN Adjust(this_silence, other_vec[j])
    ELSE ScanOtherVec(this_silence, other_vec, j + 1)

\* line 229: every channel's list in turn, the base list included.
RECURSIVE ScanAllVecs(_, _, _)
ScanAllVecs(this_silence, per, k) ==
    IF k > Len(per) THEN this_silence
    ELSE ScanAllVecs(ScanOtherVec(this_silence, per[k], 1), per, k + 1)

MergeRanges(per, base) == [i \in 1..Len(base) |-> ScanAllVecs(base[i], per, 1)]

FinalSilences(per) ==
    IF Len(per) = 1 THEN Some(per[1])
    ELSE IF Len(per) = 0 THEN None
    ELSE LET v == MergeRanges(per, MostSilences(per))
         IN  IF Len(v) > 0 THEN Some(v) ELSE None

(***************************************************************************)
(* Unsigned arithmetic.  usize subtraction a - b with a < b panics when    *)
(* the build checks overflow and otherwise wraps to a - b + 2^64, which is *)
(* larger than every index and every length of the model.                  *)
(***************************************************************************)
Underflows(a, b) == a < b

\* a - b < m on usize, for a build that wraps
SubLess(a, b, m) == IF Underflows(a, b) THEN FALSE ELSE a - b < m

\* i >= a - b on usize, for a build that wraps
GeqSub(i, a, b) == IF Underflows(a, b) THEN FALSE ELSE i >= a - b

(***************************************************************************)
(* try_saving_auto_cuts, lines 263-276: ranges with                        *)
(* range.1 - range.0 < min_silence_len are removed, highest index first.   *)
(***************************************************************************)
RECURSIVE TooShortIdxs(_, _, _)
TooShortIdxs(ranges, min_len, i) ==
    IF i >= Len(ranges) THEN << >>
    ELSE (IF SubLess(ranges[i + 1][2], ranges[i + 1][1], min_len) THEN << i >> ELSE << >>)
         \o TooShortIdxs(ranges, min_len, i + 1)

\* lines 272-274 and 303-305: ranges.remove(*i) over remove_idxs reversed
RECURSIVE RemoveReversed(_, _, _)
RemoveReversed(ranges, remove_idxs, k) ==
    IF k = 0 THEN ranges
    ELSE RemoveReversed(RemoveAt(ranges, remove_idxs[k]), remove_idxs, k - 1)

\* Vec::remove panics when the index is not below the current length
RECURSIVE RemovePanics(_, _, _)
RemovePanics(ranges, remove_idxs, k) ==
    IF k = 0 THEN FALSE
    ELSE \/ remove_idxs[k] >= Len(ranges)
         \/ RemovePanics(RemoveAt(ranges, remove_idxs[k]), remove_idxs, k - 1)

(***************************************************************************)
(* try_saving_auto_cuts, lines 280-301: the segment-length filter.  The    *)
(* result is remove_idxs, and whether an unsigned subtraction underflowed. *)
(***************************************************************************)
\* line 289: the ranges that get the end-of-channel check
IsTailRangeLastOnly(i, len) == i >= len - 1

IsTailRange(i, len) == GeqSub(i, len, 2) \/ len = 1

Contains(s, e) == \E k \in 1..Len(s) : s[k] = e

RECURSIVE SegmentFilter(_, _, _, _, _)
SegmentFilter(ranges, channel_len, min_len, i, acc) ==
    IF i >= Len(ranges) THEN acc
    ELSE LET range == ranges[i + 1]
         IN  IF i = 0 /\ range[1] < min_len
             THEN SegmentFilter(ranges, channel_len, min_len, i + 1,
                                [acc EXCEPT !.remove_idxs = Append(@, i)])
             ELSE LET a1 == [acc EXCEPT !.underflow = @ \/ Underflows(Len(ranges), 2)]
                  IN  IF IsTailRange(i, Len(ranges))
                      THEN LET a2 == [a1 EXCEPT !.underflow = @ \/ Underflows(channel_len, range[2])]
                           IN  IF SubLess(channel_len, range[2], min_len)
                               THEN SegmentFilter(ranges, channel_len, min_len, i + 1,
                                        IF Contains(a2.remove_idxs, i) THEN a2
                                        ELSE [a2 EXCEPT !.remove_idxs = Append(@, i)])
                               ELSE SegmentFilter(ranges, channel_len, min_len, i + 1, a2)
                      ELSE LET next_range == ranges[i + 2]
                               a2 == [a1 EXCEPT !.underflow = @ \/ Underflows(next_range[1], range[2])]
                           IN  IF SubLess(next_range[1], range[2], min_len)
                               THEN SegmentFilter(ranges, channel_len, min_len, i + 1,
                                        [a2 EXCEPT !.remove_idxs = Append(@, i + 1)])
                               ELSE SegmentFilter(ranges, channel_len, min_len, i + 1, a2)

(***************************************************************************)
(* try_saving_auto_cuts, lines 310-336: slicing.  Every range closes the   *)
(* segment [start_i ..= range.0] and sets start_i to range.1; the last     *)
(* segment is [start_i ..= len - 1].                                       *)
(***************************************************************************)
SliceEndExclusive(channel, start_i, end_i) == SubSeq(channel, start_i + 1, end_i)

\* channel[start_i..=end_i]
Slice(channel, start_i, end_i) == SubSeq(channel, start_i + 1, end_i + 1)

SliceAll(chs, start_i, end_i) == [c \in 1..Len(chs) |-> Slice(chs[c], start_i, end_i)]

RECURSIVE Segments(_, _, _, _)
Segments(ranges, chs, k, start_i) ==
    IF k > Len(ranges) THEN << SliceAll(chs, start_i, Len(chs[1]) - 1) >>
    ELSE << SliceAll(chs, start_i, ranges[k][1]) >>
         \o Segments(ranges, chs, k + 1, ranges[k][2])

(***************************************************************************)
(* save_new_wav, lines 364-441.  The record of one call: the postfix       *)
(* number (0 for None), the channels handed over, whether a file is        *)
(* written and the interleaved buffer written to it.                       *)
(***************************************************************************)
InterleaveByBlocks(chs) ==
    [i \in 1..(Len(chs[1]) * Len(chs)) |->
        chs[((i - 1) \div Len(chs[1])) + 1][((i - 1) % Len(chs[1])) + 1]]

\* lines 381-387
Interleave(chs) ==
    [i \in 1..(Len(chs[1]) * Len(chs)) |->
        chs[((i - 1) % Len(chs)) + 1][((i - 1) \div Len(chs)) + 1]]

SamplesPerChannel(chs) == IF Len(chs) > 0 THEN Len(chs[1]) ELSE 0

\* the disk before a file is processed: the input is there, its subdirectory
\* is not, nothing is written
InitialFs == [input_exists |-> TRUE, subdir_exists |-> FALSE, outputs |-> << >>]

\* fs::remove_file(path) returns Err: refused, or there is no such file
RemoveFileFails(o, f) == o.remove_fails \/ ~f.input_exists

\* lines 399-412: the subdirectory is created when it is asked for and missing;
\* unwrap_or(()) drops the error of create_dir
CreateSubdir(o, f) ==
    IF o.auto_cut /\ o.create_subdirectory /\ ~f.subdir_exists /\ ~o.create_dir_fails
    THEN [f EXCEPT !.subdir_exists = TRUE]
    ELSE f

\* lines 415-421: remove_file(path).unwrap() on an existing input
RemovesOriginal(o, f) == o.auto_cut /\ o.delete_original /\ f.input_exists

DeleteOriginalPanics(o, f) == RemovesOriginal(o, f) /\ RemoveFileFails(o, f)

DeleteOriginal(o, f) ==
    IF RemovesOriginal(o, f) /\ ~RemoveFileFails(o, f)
    THEN [f EXCEPT !.input_exists = FALSE]
    ELSE f

\* line 423: the output goes into the subdirectory
InSubdir(o) == o.auto_cut /\ o.create_subdirectory

\* lines 395 and 423: the output path is the input path
IsInputPath(o, postfix) == o.overwrite_input /\ postfix = 0 /\ ~InSubdir(o)

\* line 427: WavWriter::create fails when the directory of the path is missing
WriterFails(o, f) == InSubdir(o) /\ ~f.subdir_exists

\* line 392: strip_suffix(".wav").unwrap() on a name with another ending, which
\* check_file_for_wav lets through because it compares the lower-cased name
NamePanics(o) == ~o.wav_suffix

\* the empty input is deleted whatever the option says
DeletesEmptyAlways(o) == TRUE

\* line 371
DeletesEmpty(o) == o.delete_empty

\* one call: what was handed over, what came back and the disk afterwards
Saved(postfix, chs, written, write_buf, result, f) ==
    [call |-> [postfix |-> postfix, channels |-> chs, written |-> written,
               write_buf |-> write_buf, result |-> result],
     fs |-> f]

save_new_wav(o, f, chs, postfix) ==
    IF SamplesPerChannel(chs) = 0
    THEN IF DeletesEmpty(o)
         THEN IF RemoveFileFails(o, f)
              THEN Saved(postfix, chs, FALSE, << >>, "err", f)
              ELSE Saved(postfix, chs, FALSE, << >>, "ok", [f EXCEPT !.input_exists = FALSE])
         ELSE Saved(postfix, chs, FALSE, << >>, "ok", f)
    ELSE LET f1 == CreateSubdir(o, f)
             f2 == DeleteOriginal(o, f1)
         IN  IF NamePanics(o)
             THEN Saved(postfix, chs, FALSE, Interleave(chs), "panic", f)
             ELSE IF DeleteOriginalPanics(o, f1)
             THEN Saved(postfix, chs, FALSE, Interleave(chs), "panic", f1)
             ELSE IF WriterFails(o, f2)
             THEN Saved(postfix, chs, FALSE, Interleave(chs), "err", f2)
             ELSE Saved(postfix, chs, TRUE, Interleave(chs), "ok",
                        [f2 EXCEPT !.outputs = Append(@, postfix),
                                   !.input_exists = @ \/ IsInputPath(o, postfix)])

\* lines 340-345: segment i is saved with the number i + 1; a panic ends the loop
RECURSIVE SaveLoop(_, _, _, _, _)
SaveLoop(o, f, segs, i, calls) ==
    IF i > Len(segs)
    THEN [saves |-> calls, fs |-> f, panicked |-> FALSE]
    ELSE LET s == save_new_wav(o, f, segs[i], i)
         IN  IF s.call.result = "panic"
             THEN [saves |-> Append(calls, s.call), fs |-> s.fs, panicked |-> TRUE]
             ELSE SaveLoop(o, s.fs, segs, i + 1, Append(calls, s.call))

SaveSegments(o, f, segs) == SaveLoop(o, f, segs, 1, << >>)

(***************************************************************************)
(* try_saving_auto_cuts, lines 254-356, as a whole.                        *)
(***************************************************************************)
\* what the two filters of lines 265-305 did: the indices they collected,
\* whether an unsigned subtraction went below zero, whether a removal was
\* out of the bounds of the list
FilterLog(ran, short_idxs, remove_idxs, underflow, out_of_bounds) ==
    [ran |-> ran, short_idxs |-> short_idxs, remove_idxs |-> remove_idxs,
     underflow |-> underflow, out_of_bounds |-> out_of_bounds]

NoFilter == FilterLog(FALSE, << >>, << >>, FALSE, FALSE)

try_saving_auto_cuts(o, f0, ranges_opt, chs, min_silence, min_sample, checks) ==
    IF ~ranges_opt.is_some
    THEN [result |-> "err", ranges |-> ranges_opt, saves |-> << >>, filter |-> NoFilter,
          fs |-> f0]
    ELSE LET short == TooShortIdxs(ranges_opt.v, min_silence, 0)
             short_underflow == \E k \in 1..Len(ranges_opt.v) :
                                    Underflows(ranges_opt.v[k][2], ranges_opt.v[k][1])
             short_panics == RemovePanics(ranges_opt.v, short, Len(short))
             ranges1 == RemoveReversed(ranges_opt.v, short, Len(short))
         IN  IF (checks /\ short_underflow) \/ short_panics
             THEN [result |-> "panic", ranges |-> ranges_opt, saves |-> << >>,
                   filter |-> FilterLog(TRUE, short, << >>, short_underflow, short_panics),
                   fs |-> f0]
             ELSE IF Len(ranges1) <= 0
             THEN [result |-> "err", ranges |-> Some(ranges1), saves |-> << >>,
                   filter |-> FilterLog(TRUE, short, << >>, short_underflow, FALSE),
                   fs |-> f0]
             ELSE LET f == SegmentFilter(ranges1, Len(chs[1]), min_sample, 0,
                                         [remove_idxs |-> << >>, underflow |-> FALSE])
                      remove_panics == RemovePanics(ranges1, f.remove_idxs, Len(f.remove_idxs))
                      ranges2 == RemoveReversed(ranges1, f.remove_idxs, Len(f.remove_idxs))
                      log == FilterLog(TRUE, short, f.remove_idxs,
                                       short_underflow \/ f.underflow, remove_panics)
                  IN  IF (checks /\ f.underflow) \/ remove_panics
                      THEN [result |-> "panic", ranges |-> Some(ranges1), saves |-> << >>,
                            filter |-> log, fs |-> f0]
                      ELSE IF Len(ranges2) > 0
                      THEN LET run == SaveSegments(o, f0, Segments(ranges2, chs, 1, 0))
                           IN  [result |-> IF run.panicked THEN "panic" ELSE "ok",
                                ranges |-> Some(ranges2), saves |-> run.saves,
                                filter |-> log, fs |-> run.fs]
                      ELSE [result |-> "err", ranges |-> Some(ranges2), saves |-> << >>,
                            filter |-> log, fs |-> f0]

(***************************************************************************)
(* int_bit_to_max, lines 600-610, over u64.  A u64 is four limbs of 16     *)
(* bits, the lowest first, so that 2^32 - 1 and the f32 image of i32::MAX  *)
(* are representable.                                                      *)
(***************************************************************************)
Limb == 2^16

\* the u64 of an integer 0 <= n < 2^31
U64(n) == << n % Limb, n \div Limb, 0, 0 >>

\* the integer of a u64 below 2^31
ToInt(x) == x[1] + x[2] * Limb

\* 2u64.pow(e) for e < 64: the bit e
Pow2U64(e) == [i \in 1..4 |-> IF (e \div 16) + 1 = i THEN 2^(e % 16) ELSE 0]

\* x - 1 for x > 0: borrows through the zero limbs below the lowest non-zero one
SubOneU64(x) ==
    LET k == CHOOSE i \in 1..4 : x[i] # 0 /\ \A j \in 1..(i - 1) : x[j] = 0
    IN  [i \in 1..4 |-> IF i < k THEN Limb - 1 ELSE IF i = k THEN x[i] - 1 ELSE x[i]]

\* the sign bit is not subtracted
int_bit_to_max_unsigned(b, s) == SubOneU64(Pow2U64(b))

int_bit_to_max(b, s) ==
    LET sign == IF s THEN 1 ELSE 0
    IN  SubOneU64(Pow2U64(b - sign))

(***************************************************************************)
(* setup_wav_processing, lines 448-478: the largest magnitude of the       *)
(* sample type and its image under `as f32`, the factor of                 *)
(* deviation_normalized.  f32 keeps 24 significant bits and rounds to the  *)
(* nearest, ties to even.                                                  *)
(***************************************************************************)
I16_MAX == 32767

I32_MAX == 2147483647

RECURSIVE BitLen(_)
BitLen(n) == IF n = 0 THEN 0 ELSE 1 + BitLen(n \div 2)

\* (n as f32) for 0 <= n < 2^31, as a u64
AsF32(n) ==
    LET d == IF BitLen(n) > 24 THEN BitLen(n) - 24 ELSE 0
        q == n \div 2^d
        rem == n % 2^d
        up == d > 0 /\ (2 * rem > 2^d \/ (2 * rem = 2^d /\ q % 2 = 1))
        m == IF up THEN q + 1 ELSE q
    IN  << (m % 2^(16 - d)) * 2^d, m \div 2^(16 - d), 0, 0 >>

SupportedBits == {16, 24, 32}

SampleFormats == {"Int", "Float"}

\* x * 2^-k truncated, for x < 2^32 and k < 16: the product of the f32 with a
\* power of two is exact and the cast to an integer drops the fraction
ShiftRightU64(x, k) ==
    << (x[1] \div 2^k) + (x[2] % 2^k) * 2^(16 - k), x[2] \div 2^k, 0, 0 >>

\* `as i16` for 16 bits, `as i32` for 24 and 32: the cast of a float saturates
CastSigned(x, b) ==
    LET most == IF b = 16 THEN I16_MAX ELSE I32_MAX
    IN  IF x[2] >= 2^15 THEN most
        ELSE IF ToInt(x) > most THEN most
        ELSE ToInt(x)

\* lines 454-463: the integer behind the cast of each supported width
MaxMagnitude(b) ==
    CASE b = 16 -> U64(I16_MAX)
      [] b = 24 -> int_bit_to_max(24, TRUE)
      [] b = 32 -> U64(I32_MAX)

\* lines 456, 459, 462: (max as f32 * self.deviation_normalized) as i16 or i32
Threshold(b, shift) == CastSigned(ShiftRightU64(AsF32(ToInt(MaxMagnitude(b))), shift), b)

(***************************************************************************)
(* Initial states: one decoded file and one configuration.  The decoder    *)
(* delivers whole frames, so the stream length is a multiple of the        *)
(* channel count, and at least one channel.                                *)
(***************************************************************************)
Streams(n, max_flat, values) ==
    UNION { [1..(n * frames) -> values] : frames \in 0..(max_flat \div n) }

\* the options of save_new_wav, the answers of the file system and the disk
Files(rm, overwrite, subdir, del_original, no_remove, no_create_dir, suffix) ==
    /\ delete_empty = rm
    /\ overwrite_input = overwrite
    /\ create_subdirectory = subdir
    /\ delete_original = del_original
    /\ remove_fails = no_remove
    /\ create_dir_fails = no_create_dir
    /\ wav_suffix = suffix
    /\ fs = InitialFs

\* the same, read from the state
Options ==
    [delete_empty |-> delete_empty, overwrite_input |-> overwrite_input,
     auto_cut |-> auto_cut, create_subdirectory |-> create_subdirectory,
     delete_original |-> delete_original, remove_fails |-> remove_fails,
     create_dir_fails |-> create_dir_fails, wav_suffix |-> wav_suffix]

StartProcess(flat, n, dev, ac, min_silence, min_sample, checks) ==
    /\ pc = "start"
    /\ samples = flat
    /\ num_channels = n
    /\ deviation = dev
    /\ auto_cut = ac
    /\ min_silence_len = min_silence
    /\ min_sample_len = min_sample
    /\ overflow_checks = checks
    /\ channels = << >>
    /\ non_zeroes = << >>
    /\ new_channels = << >>
    /\ silence_ranges_per_channel = << >>
    /\ most_silences_vec = << >>
    /\ silence_ranges = None
    /\ has_cut = "none"
    /\ saved = << >>
    /\ filter = NoFilter
    /\ bits = 0
    /\ signed = FALSE
    /\ bit_max = None
    /\ max_magnitude = None
    /\ reader_ok = TRUE
    /\ sample_format = "Int"
    /\ deviation_shift = 0

\* a file with a name in ".wav", processed with the default options on a file
\* system that refuses nothing
Start(flat, n, dev, ac, min_silence, min_sample, checks) ==
    /\ StartProcess(flat, n, dev, ac, min_silence, min_sample, checks)
    /\ Files(FALSE, FALSE, FALSE, FALSE, FALSE, FALSE, TRUE)

\* a channel that is silent (0) exactly on the given ranges and loud (1) elsewhere
ChannelWithSilences(len, ranges) ==
    [i \in 1..len |-> IF \E k \in 1..Len(ranges) : ranges[k][1] <= i - 1 /\ i - 1 <= ranges[k][2]
                      THEN 0 ELSE 1]

\* section 8 of the specification: threshold 100 and samples [5, 200, 3, 2, 1]
TrimExample == << 5, 200, 3, 2, 1 >>

\* section 8: two channels with the silence ranges [(10,50)] and [(15,60)]
MergeExample ==
    Interleave(<< ChannelWithSilences(62, << << 10, 50 >> >>),
                  ChannelWithSilences(62, << << 15, 60 >> >>) >>)

\* section 8: one channel of 1000 samples with the silence range (400,450)
SliceExample == ChannelWithSilences(1000, << << 400, 450 >> >>)

\* the configurations: no auto-cut, or auto-cut with the two minimum lengths
Configs(max_silence, max_sample) ==
    { << FALSE, 0, 0, FALSE >> }
    \cup { << TRUE, a, b, c >> : a \in 0..max_silence, b \in 0..max_sample, c \in BOOLEAN }

\* streams of few samples with every amplitude around the threshold
InitAmplitudes ==
    \E n \in 1..MaxCh, dev \in 0..MaxAmp, cfg \in Configs(0, 0) :
        \E flat \in Streams(n, MaxFlatAmp, (-MaxAmp)..MaxAmp) :
            Start(flat, n, dev, cfg[1], cfg[2], cfg[3], cfg[4])

\* longer streams of silent (0) and loud (1) samples, threshold 0
InitSilences ==
    \E n \in 1..MaxCh, cfg \in Configs(MaxMinSilence, MaxMinSample) :
        \E flat \in Streams(n, MaxFlat, {0, 1}) :
            Start(flat, n, 0, cfg[1], cfg[2], cfg[3], cfg[4])

\* the examples of section 8
InitExamples ==
    \/ \E cfg \in Configs(0, 0) : Start(TrimExample, 1, 100, cfg[1], cfg[2], cfg[3], cfg[4])
    \/ \E checks \in BOOLEAN : Start(MergeExample, 2, 0, TRUE, 20, 5, checks)
    \/ \E checks \in BOOLEAN : Start(SliceExample, 1, 0, TRUE, 20, 50, checks)

Init == InitAmplitudes \/ InitSilences \/ InitExamples

\* short streams of silent and loud samples with every combination of the
\* options; without auto-cut the two options of AutoCut are not there
InitFiles ==
    \E n \in 1..MaxCh, rm \in BOOLEAN, overwrite \in BOOLEAN, no_remove \in BOOLEAN,
       suffix \in BOOLEAN :
        \E flat \in Streams(n, MaxFlatFiles, {0, 1}) :
            \/ /\ StartProcess(flat, n, 0, FALSE, 0, 0, FALSE)
               /\ Files(rm, overwrite, FALSE, FALSE, no_remove, FALSE, suffix)
            \/ \E subdir \in BOOLEAN, del_original \in BOOLEAN, no_create_dir \in BOOLEAN,
                  checks \in BOOLEAN :
                   /\ StartProcess(flat, n, 0, TRUE, 0, 0, checks)
                   /\ Files(rm, overwrite, subdir, del_original, no_remove, no_create_dir,
                            suffix)

(***************************************************************************)
(* The steps of process_wav.                                               *)
(***************************************************************************)
\* lines 79-95
DeinterleaveStep ==
    /\ pc = "start"
    /\ channels' = Deinterleave(samples, num_channels)
    /\ pc' = "deinterleaved"
    /\ UNCHANGED << inputs, setup, non_zeroes, new_channels, silence_ranges_per_channel,
                    most_silences_vec, silence_ranges, has_cut, saved, filter, fs >>

\* lines 97-129
TrimStep ==
    /\ pc = "deinterleaved"
    /\ non_zeroes' = NonZeroes(channels, deviation)
    /\ new_channels' = TrimChannels(channels, NonZeroes(channels, deviation))
    /\ pc' = "trimmed"
    /\ UNCHANGED << inputs, setup, channels, silence_ranges_per_channel,
                    most_silences_vec, silence_ranges, has_cut, saved, filter, fs >>

\* line 135: get_silence_ranges, lines 166-247
GetSilenceRanges ==
    /\ pc = "trimmed"
    /\ auto_cut
    /\ LET per == DetectAll(new_channels, deviation, min_silence_len, 1)
       IN  /\ silence_ranges_per_channel' = per
           /\ most_silences_vec' = IF Len(per) >= 2 THEN MostSilences(per) ELSE << >>
           /\ silence_ranges' = FinalSilences(per)
    /\ pc' = "ranged"
    /\ UNCHANGED << inputs, setup, channels, non_zeroes, new_channels, has_cut, saved,
                    filter, fs >>

\* line 136: try_saving_auto_cuts, lines 254-356
TrySavingAutoCuts ==
    /\ pc = "ranged"
    /\ LET r == try_saving_auto_cuts(Options, fs, silence_ranges, new_channels,
                                     min_silence_len, min_sample_len, overflow_checks)
       IN  /\ silence_ranges' = r.ranges
           /\ saved' = saved \o r.saves
           /\ has_cut' = r.result
           /\ filter' = r.filter
           /\ fs' = r.fs
           /\ pc' = CASE r.result = "ok" -> "done"
                      [] r.result = "err" -> "fallback"
                      [] OTHER -> "panicked"
    /\ UNCHANGED << inputs, setup, channels, non_zeroes, new_channels,
                    silence_ranges_per_channel, most_silences_vec >>

\* lines 137-142: the single trimmed output after a failed auto-cut
SaveFallback ==
    /\ pc = "fallback"
    /\ LET s == save_new_wav(Options, fs, new_channels, 0)
       IN  /\ saved' = Append(saved, s.call)
           /\ fs' = s.fs
           /\ pc' = IF s.call.result = "panic" THEN "panicked" ELSE "done"
    /\ UNCHANGED << inputs, setup, channels, non_zeroes, new_channels,
                    silence_ranges_per_channel, most_silences_vec, silence_ranges, has_cut,
                    filter >>

\* lines 144-149: the single trimmed output without auto-cut
SaveTrimmed ==
    /\ pc = "trimmed"
    /\ ~auto_cut
    /\ LET s == save_new_wav(Options, fs, new_channels, 0)
       IN  /\ saved' = Append(saved, s.call)
           /\ fs' = s.fs
           /\ pc' = IF s.call.result = "panic" THEN "panicked" ELSE "done"
    /\ UNCHANGED << inputs, setup, channels, non_zeroes, new_channels,
                    silence_ranges_per_channel, most_silences_vec, silence_ranges, has_cut,
                    filter >>

Next ==
    \/ DeinterleaveStep
    \/ TrimStep
    \/ GetSilenceRanges
    \/ TrySavingAutoCuts
    \/ SaveFallback
    \/ SaveTrimmed

Spec == Init /\ [][Next]_vars

(***************************************************************************)
(* The width-dependent part: a call of int_bit_to_max, as in the test      *)
(* bit_to_max, and the choice of the magnitude in setup_wav_processing.    *)
(***************************************************************************)
InitBits ==
    \E b \in 1..MaxBits, s \in BOOLEAN, ok \in BOOLEAN, format \in SampleFormats,
       shift \in 0..MaxShift :
        /\ pc = "bits"
        /\ bits = b
        /\ signed = s
        /\ bit_max = None
        /\ max_magnitude = None
        /\ reader_ok = ok
        /\ sample_format = format
        /\ deviation_shift = shift
        /\ samples = << >>
        /\ num_channels = 1
        /\ deviation = 0
        /\ auto_cut = FALSE
        /\ min_silence_len = 0
        /\ min_sample_len = 0
        /\ overflow_checks = FALSE
        /\ channels = << >>
        /\ non_zeroes = << >>
        /\ new_channels = << >>
        /\ silence_ranges_per_channel = << >>
        /\ most_silences_vec = << >>
        /\ silence_ranges = None
        /\ has_cut = "none"
        /\ saved = << >>
        /\ filter = NoFilter
        /\ Files(FALSE, FALSE, FALSE, FALSE, FALSE, FALSE, TRUE)

\* lines 600-610
IntBitToMax ==
    /\ pc = "bits"
    /\ bit_max' = Some(int_bit_to_max(bits, signed))
    /\ pc' = "returned"
    /\ UNCHANGED << inputs, bits, signed, max_magnitude, reader_ok, sample_format,
                    deviation_shift, channels, non_zeroes, new_channels,
                    silence_ranges_per_channel, most_silences_vec, silence_ranges, has_cut,
                    saved, filter, fs >>

\* lines 448-478: a file that opens, with integer samples of 16, 24 or 32
\* bits, is processed with the threshold of its width; a file that does not
\* open is passed over, every other format is reported as not supported
SetupWavProcessing ==
    /\ pc = "bits"
    /\ IF ~reader_ok
       THEN /\ max_magnitude' = None
            /\ deviation' = deviation
            /\ pc' = "not_opened"
       ELSE IF sample_format = "Int" /\ bits \in SupportedBits
       THEN /\ max_magnitude' = Some([int |-> MaxMagnitude(bits),
                                      as_f32 |-> AsF32(ToInt(MaxMagnitude(bits)))])
            /\ deviation' = Threshold(bits, deviation_shift)
            /\ pc' = "process"
       ELSE /\ max_magnitude' = None
            /\ deviation' = deviation
            /\ pc' = "unsupported"
    /\ UNCHANGED << samples, num_channels, auto_cut, min_silence_len, min_sample_len,
                    overflow_checks, delete_empty, overwrite_input, create_subdirectory,
                    delete_original, remove_fails, create_dir_fails, wav_suffix,
                    bits, signed, bit_max, reader_ok, sample_format, deviation_shift,
                    channels, non_zeroes, new_channels, silence_ranges_per_channel,
                    most_silences_vec, silence_ranges, has_cut, saved, filter, fs >>

NextBits ==
    \/ IntBitToMax
    \/ SetupWavProcessing

SpecBits == InitBits /\ [][NextBits]_vars

\* process_wav with the options of save_new_wav and a file system that may refuse
SpecFiles == InitFiles /\ [][Next]_vars

(***************************************************************************)
(* Vocabulary of the properties, stated on the state without the           *)
(* operators above.                                                        *)
(***************************************************************************)
Trimmed == pc \notin {"start", "deinterleaved"}

Ranged == pc \in {"ranged", "done", "fallback", "panicked"}

Ended == pc \in {"done", "panicked"}

\* a sample within [-deviation, deviation]
Silent(sample) == -deviation <= sample /\ sample <= deviation

AllSilent(channel) == \A i \in 1..Len(channel) : Silent(channel[i])

\* the greatest index of a non-silent sample, 0 when there is none
LastSound(channel) ==
    LET loud == { i \in 0..(Len(channel) - 1) : ~Silent(channel[i + 1]) }
    IN  IF loud = {} THEN 0 ELSE CHOOSE m \in loud : \A i \in loud : i <= m

\* the channels the trimmer keeps, and the j-th of them in channel order
Survivors == { c \in 1..Len(channels) : non_zeroes[c] # 0 }

Survivor(j) == CHOOSE c \in Survivors : Cardinality({ d \in Survivors : d < c }) = j - 1

\* the silent runs of a channel that a following non-silent sample closes
ClosedRuns(channel) ==
    { r \in (0..(Len(channel) - 1)) \X (0..(Len(channel) - 1)) :
        /\ r[1] <= r[2]
        /\ \A i \in r[1]..r[2] : Silent(channel[i + 1])
        /\ (r[1] = 0 \/ ~Silent(channel[r[1]]))
        /\ r[2] + 2 <= Len(channel)
        /\ ~Silent(channel[r[2] + 2]) }

SetOf(s) == { s[k] : k \in 1..Len(s) }

NonEmptySet(x) == x # {}

(***************************************************************************)
(* C1, as claimed: with two or more channels that have silence ranges,     *)
(* every merged range covers its base range and every range of a channel   *)
(* that starts or ends inside the base range; the channels with the ranges *)
(* [(10,50)] and [(15,60)] merge to (10,60).                               *)
(***************************************************************************)
C1_MergedCoversBase ==
    (pc = "ranged" /\ Len(silence_ranges_per_channel) >= 2) =>
        /\ silence_ranges.is_some
        /\ Len(silence_ranges.v) = Len(most_silences_vec)
        /\ \A i \in 1..Len(most_silences_vec) :
              LET b == most_silences_vec[i]
                  m == silence_ranges.v[i]
              IN  /\ m[1] <= b[1]
                  /\ m[2] >= b[2]
                  /\ \A k \in 1..Len(silence_ranges_per_channel) :
                        \A o \in SetOf(silence_ranges_per_channel[k]) :
                            ((b[1] <= o[1] /\ o[1] <= b[2]) \/ (b[1] <= o[2] /\ o[2] <= b[2]))
                                => (m[1] <= o[1] /\ m[2] >= o[2])
        /\ (samples = MergeExample => silence_ranges.v = << << 10, 60 >> >>)

(***************************************************************************)
(* C1, amended: with two or more channels that have silence ranges, every  *)
(* merged range (s', e') lies within its base range (s, e):                *)
(* s <= s' <= e' <= e, one merged range per base range; the channels with  *)
(* the ranges [(10,50)] and [(15,60)] merge to (15,50).                    *)
(***************************************************************************)
C1_MergedWithinBase ==
    (pc = "ranged" /\ Len(silence_ranges_per_channel) >= 2) =>
        /\ silence_ranges.is_some
        /\ Len(silence_ranges.v) = Len(most_silences_vec)
        /\ \A i \in 1..Len(most_silences_vec) :
              LET b == most_silences_vec[i]
                  m == silence_ranges.v[i]
              IN  b[1] <= m[1] /\ m[1] <= m[2] /\ m[2] <= b[2]
        /\ (samples = MergeExample => silence_ranges.v = << << 15, 50 >> >>)

\* a merged range that is strictly narrower than its base range at both ends
C1_Witness ==
    /\ pc = "ranged"
    /\ Len(silence_ranges_per_channel) >= 2
    /\ \E i \in 1..Len(most_silences_vec) :
          /\ most_silences_vec[i][1] < silence_ranges.v[i][1]
          /\ silence_ranges.v[i][2] < most_silences_vec[i][2]

(***************************************************************************)
(* C2, as claimed: a silent run closed by a non-silent sample is in the    *)
(* detector's output if and only if end - start + 1 >= the minimum silence *)
(* length, so the lists of the channels that have ranges are exactly the   *)
(* runs of at least that length, and no shorter range appears.             *)
(***************************************************************************)
C2_KeptIffLongEnough ==
    pc = "ranged" =>
        LET expected == [c \in 1..Len(new_channels) |->
                            { r \in ClosedRuns(new_channels[c]) :
                                r[2] - r[1] + 1 >= min_silence_len }]
        IN  /\ SelectSeq(expected, NonEmptySet)
                 = [k \in 1..Len(silence_ranges_per_channel) |->
                        SetOf(silence_ranges_per_channel[k])]
            /\ \A k \in 1..Len(silence_ranges_per_channel) :
                  \A r \in SetOf(silence_ranges_per_channel[k]) :
                      r[2] - r[1] + 1 >= min_silence_len

(***************************************************************************)
(* C3, as claimed: for every pair of adjacent ranges of the canonical list *)
(* that reaches the segment-length filter, the last pair included, a gap   *)
(* next.start - prev.end below the minimum segment length removes the      *)
(* later range, so no two surviving adjacent ranges enclose a segment      *)
(* shorter than the minimum.  (Pairs whose earlier range is the first one  *)
(* and is itself dropped for its short leading segment are left aside.)    *)
(***************************************************************************)
LongEnough(r) == r[2] - r[1] >= min_silence_len

C3_ShortGapDropsLater ==
    (has_cut \in {"ok", "err"} /\ silence_ranges.is_some) =>
        LET canonical == SelectSeq(FinalSilences(silence_ranges_per_channel).v, LongEnough)
        IN  /\ \A k \in 1..(Len(canonical) - 1) :
                  (/\ canonical[1][1] >= min_sample_len
                   /\ canonical[k + 1][1] - canonical[k][2] < min_sample_len)
                      => canonical[k + 1] \notin SetOf(silence_ranges.v)
            /\ \A k \in 1..(Len(silence_ranges.v) - 1) :
                  silence_ranges.v[k + 1][1] - silence_ranges.v[k][2] >= min_sample_len

(***************************************************************************)
(* C4, as claimed: k >= 1 surviving ranges r_1..r_k over trimmed channels  *)
(* of length L give exactly k + 1 segments, [0 .. r_1.start],              *)
(* [r_(j-1).end .. r_j.start] and [r_k.end .. L-1], every channel sliced   *)
(* alike; and a single channel whose sole range leaves at least the        *)
(* minimum segment length on both sides (as 1000 samples with the range    *)
(* (400,450) and the minimum 50) ends with exactly these two segments.     *)
(***************************************************************************)
SegmentLo(ranges, j) == IF j = 1 THEN 0 ELSE ranges[j - 1][2]

SegmentHi(ranges, j) == IF j = Len(ranges) + 1 THEN Len(new_channels[1]) - 1 ELSE ranges[j][1]

SegmentsAsClaimed(ranges) ==
    /\ Len(saved) = Len(ranges) + 1
    /\ \A j \in 1..Len(saved) :
          /\ saved[j].postfix = j
          /\ Len(saved[j].channels) = Len(new_channels)
          /\ \A c \in 1..Len(new_channels) :
                saved[j].channels[c]
                    = [i \in 1..(SegmentHi(ranges, j) - SegmentLo(ranges, j) + 1) |->
                          new_channels[c][SegmentLo(ranges, j) + i]]

SoleValidRange ==
    /\ auto_cut
    /\ Len(new_channels) = 1
    /\ Len(silence_ranges_per_channel) = 1
    /\ Len(silence_ranges_per_channel[1]) = 1
    /\ LET r == silence_ranges_per_channel[1][1]
       IN  /\ LongEnough(r)
           /\ r[1] >= min_sample_len
           /\ Len(new_channels[1]) - r[2] >= min_sample_len

C4_SegmentBounds ==
    /\ has_cut = "ok" => SegmentsAsClaimed(silence_ranges.v)
    /\ (Ended /\ SoleValidRange) => SegmentsAsClaimed(silence_ranges_per_channel[1])

(***************************************************************************)
(* C5, as claimed: a channel whose only non-silent sample is at index 0    *)
(* has last-sound index 0 and is in the surviving channel set, so the      *)
(* surviving set holds these channels besides the ones with a later sound. *)
(***************************************************************************)
OnlyFirstSound(channel) ==
    /\ Len(channel) >= 1
    /\ ~Silent(channel[1])
    /\ \A i \in 2..Len(channel) : Silent(channel[i])

C5_FirstSampleChannelKept ==
    Trimmed =>
        /\ \A c \in 1..Len(channels) : OnlyFirstSound(channels[c]) => non_zeroes[c] = 0
        /\ Len(new_channels) =
              Cardinality({ c \in 1..Len(channels) :
                              LastSound(channels[c]) > 0 \/ OnlyFirstSound(channels[c]) })

(***************************************************************************)
(* C6: every channel all of whose samples lie in [-threshold, threshold]   *)
(* is dropped: it is none of the surviving channels, and the surviving set *)
(* holds exactly one channel per survivor.                                 *)
(***************************************************************************)
C6_SilentChannelDropped ==
    Trimmed =>
        /\ Len(new_channels) = Cardinality(Survivors)
        /\ \A c \in 1..Len(channels) : AllSilent(channels[c]) => c \notin Survivors
        /\ \A j \in 1..Len(new_channels) : ~AllSilent(new_channels[j])

\* a silent channel with a sample at the threshold itself is dropped beside a survivor
C6_Witness ==
    /\ Trimmed
    /\ Len(new_channels) >= 1
    /\ \E c \in 1..Len(channels) :
          /\ AllSilent(channels[c])
          /\ c \notin Survivors
          /\ \E i \in 2..Len(channels[c]) : channels[c][i] = deviation

(***************************************************************************)
(* C7: after trimming, every surviving channel is the prefix of length     *)
(* max_last_sound + 1 of its input channel, max_last_sound being the       *)
(* greatest last-non-silent index over the surviving channels, so all      *)
(* surviving channels have that one length; threshold 100 and the samples  *)
(* [5, 200, 3, 2, 1] give [5, 200].                                        *)
(***************************************************************************)
MaxLastSound ==
    CHOOSE m \in { LastSound(channels[c]) : c \in Survivors } :
        \A c \in Survivors : LastSound(channels[c]) <= m

C7_TruncatedToMaxLastSound ==
    /\ (Trimmed /\ Survivors # {}) =>
          /\ Len(new_channels) = Cardinality(Survivors)
          /\ \A j \in 1..Len(new_channels) :
                /\ Len(new_channels[j]) = MaxLastSound + 1
                /\ new_channels[j] = [i \in 1..(MaxLastSound + 1) |-> channels[Survivor(j)][i]]
    /\ (Trimmed /\ samples = TrimExample /\ num_channels = 1 /\ deviation = 100) =>
          new_channels = << << 5, 200 >> >>

\* two survivors with different last sounds, cut shorter than the input
C7_Witness ==
    /\ Trimmed
    /\ Len(new_channels) >= 2
    /\ \E c, d \in Survivors : LastSound(channels[c]) < LastSound(channels[d])
    /\ Len(new_channels[1]) < Len(channels[1])

(***************************************************************************)
(* C8: re-interleaving the de-interleaved channels unchanged gives the     *)
(* original sample sequence, for every channel count and every sequence    *)
(* of whole frames; so a file whose channels the trimmer leaves as they    *)
(* are is written back sample for sample.                                  *)
(***************************************************************************)
C8_InterleaveRoundTrip ==
    /\ pc # "start" =>
          /\ Len(channels) = num_channels
          /\ \A c \in 1..num_channels : Len(channels[c]) * num_channels = Len(samples)
          /\ Interleave(channels) = samples
    /\ (pc = "done" /\ Len(saved) = 1 /\ saved[1].postfix = 0 /\ new_channels = channels
            /\ saved[1].written) => saved[1].write_buf = samples

\* a written file of several channels with several frames, no two samples of a frame alike
C8_Witness ==
    /\ pc = "done"
    /\ num_channels >= 2
    /\ Len(samples) >= 2 * num_channels
    /\ Len(saved) = 1
    /\ saved[1].written
    /\ new_channels = channels
    /\ saved[1].write_buf = samples
    /\ samples[1] # samples[2]
    /\ channels[1] # channels[2]

(***************************************************************************)
(* C9, as claimed: when several channels tie for the largest number of     *)
(* silence ranges, the base list is that of the first of them in channel   *)
(* order.                                                                  *)
(***************************************************************************)
IsLongest(k) ==
    \A j \in 1..Len(silence_ranges_per_channel) :
        Len(silence_ranges_per_channel[j]) <= Len(silence_ranges_per_channel[k])

C9_BaseIsFirstLongest ==
    (pc = "ranged" /\ Len(silence_ranges_per_channel) >= 2) =>
        \E k \in 1..Len(silence_ranges_per_channel) :
            /\ IsLongest(k)
            /\ \A j \in 1..(k - 1) : ~IsLongest(j)
            /\ most_silences_vec = silence_ranges_per_channel[k]

(***************************************************************************)
(* C9, amended: when several channels tie for the largest number of        *)
(* silence ranges, the base list is that of the last of them in channel    *)
(* order.                                                                  *)
(***************************************************************************)
C9_BaseIsLastLongest ==
    (pc = "ranged" /\ Len(silence_ranges_per_channel) >= 2) =>
        \E k \in 1..Len(silence_ranges_per_channel) :
            /\ IsLongest(k)
            /\ \A j \in (k + 1)..Len(silence_ranges_per_channel) : ~IsLongest(j)
            /\ most_silences_vec = silence_ranges_per_channel[k]

\* a tie between channels whose lists differ, the last of them being the base
C9_Witness ==
    /\ pc = "ranged"
    /\ \E j, k \in 1..Len(silence_ranges_per_channel) :
          /\ j < k
          /\ IsLongest(j)
          /\ IsLongest(k)
          /\ silence_ranges_per_channel[j] # silence_ranges_per_channel[k]
          /\ most_silences_vec = silence_ranges_per_channel[k]
          /\ most_silences_vec # silence_ranges_per_channel[j]

(***************************************************************************)
(* C10, as claimed: a file processed with auto-cut ends in exactly one of  *)
(* two ways: no range is left and exactly one non-segmented trimmed buffer *)
(* is handed to the save step, or ranges are left and two or more numbered *)
(* segments and nothing else are handed to it; never both.                 *)
(***************************************************************************)
FallbackOnly ==
    /\ (~silence_ranges.is_some \/ Len(silence_ranges.v) = 0)
    /\ Len(saved) = 1
    /\ saved[1].postfix = 0
    /\ saved[1].channels = new_channels

SegmentsOnly ==
    /\ silence_ranges.is_some
    /\ Len(silence_ranges.v) >= 1
    /\ Len(saved) >= 2
    /\ \A j \in 1..Len(saved) : saved[j].postfix = j

C10_SegmentsOrFallback ==
    /\ (auto_cut /\ Ended) => (FallbackOnly \/ SegmentsOnly)
    /\ ~(FallbackOnly /\ SegmentsOnly)
    /\ ~(\E i, j \in 1..Len(saved) : saved[i].postfix = 0 /\ saved[j].postfix # 0)

(***************************************************************************)
(* C14.  For every non-empty canonical range list that is ordered by       *)
(* start, pairwise disjoint and within the trimmed channel length (a list  *)
(* of exactly one range included), the filter stage of                     *)
(* try_saving_auto_cuts completes without a failing operation: no unsigned *)
(* subtraction goes below zero, the indices to remove are strictly         *)
(* increasing, and every removal, applied from the highest index to the    *)
(* lowest, is within the bounds of the list.                               *)
(***************************************************************************)
\* the list get_silence_ranges handed to try_saving_auto_cuts
Canonical == FinalSilences(silence_ranges_per_channel)

WellFormedRanges(ranges, channel_len) ==
    /\ Len(ranges) >= 1
    /\ \A k \in 1..Len(ranges) : ranges[k][1] <= ranges[k][2] /\ ranges[k][2] < channel_len
    /\ \A k \in 1..(Len(ranges) - 1) : ranges[k][2] < ranges[k + 1][1]

StrictlyIncreasing(idxs) == \A k \in 1..(Len(idxs) - 1) : idxs[k] < idxs[k + 1]

FilterRanOnWellFormed ==
    /\ filter.ran
    /\ Canonical.is_some
    /\ WellFormedRanges(Canonical.v, Len(new_channels[1]))

C14_FilterNeverFails ==
    FilterRanOnWellFormed =>
        /\ ~filter.underflow
        /\ StrictlyIncreasing(filter.short_idxs)
        /\ StrictlyIncreasing(filter.remove_idxs)
        /\ ~filter.out_of_bounds

(***************************************************************************)
(* C13.  int_bit_to_max(N, signed) returns 2^(N-1) - 1 when signed and     *)
(* 2^N - 1 when unsigned, for N in {16, 24, 32}; so the largest magnitude  *)
(* behind the threshold is 32767 at 16 bits, 8388607 at 24 bits and        *)
(* 2147483647 at 32 bits.                                                  *)
(***************************************************************************)
\* 2^k - 1 as a u64: the k lowest bits set
AllOnes(k) ==
    [i \in 1..4 |-> IF k >= 16 * i THEN Limb - 1
                    ELSE IF k > 16 * (i - 1) THEN 2^(k - 16 * (i - 1)) - 1
                    ELSE 0]

C13_IntBitToMax ==
    /\ (pc = "returned" /\ bits \in SupportedBits) =>
           /\ bit_max.is_some
           /\ bit_max.v = AllOnes(IF signed THEN bits - 1 ELSE bits)
           /\ (bits = 16 /\ signed) => ToInt(bit_max.v) = 32767
           /\ (bits = 16 /\ ~signed) => ToInt(bit_max.v) = 65535
           /\ (bits = 24 /\ signed) => ToInt(bit_max.v) = 8388607
           /\ (bits = 24 /\ ~signed) => ToInt(bit_max.v) = 16777215
           /\ (bits = 32 /\ signed) => ToInt(bit_max.v) = 2147483647
           /\ (bits = 32 /\ ~signed) => bit_max.v = << 65535, 65535, 0, 0 >>
    /\ pc = "process" =>
           /\ reader_ok
           /\ sample_format = "Int"
           /\ bits \in SupportedBits
           /\ max_magnitude.is_some
           /\ max_magnitude.v.int = AllOnes(bits - 1)
           /\ ToInt(max_magnitude.v.int) = CASE bits = 16 -> 32767
                                             [] bits = 24 -> 8388607
                                             [] bits = 32 -> 2147483647

C13_Witness == pc = "returned" /\ bits = 32 /\ ~signed /\ bit_max.v = AllOnes(32)

(***************************************************************************)
(* C11.  When every channel is fully silent the surviving set has zero     *)
(* channels and processing completes without error; whenever the buffer    *)
(* handed to the save step has zero samples, no output file is written,    *)
(* and the input file is removed if and only if the delete-empty option is *)
(* set.  The removal can be refused by the file system: the statement that *)
(* holds has the file removed if and only if the option is set and the     *)
(* removal is not refused, and a refused removal is the only error.        *)
(***************************************************************************)
AllChannelsSilent == \A c \in 1..Len(channels) : AllSilent(channels[c])

EmptySave(k) == SamplesPerChannel(saved[k].channels) = 0

\* a silent input goes on until it is done
SilentCompletes ==
    (Trimmed /\ AllChannelsSilent) =>
        /\ Len(new_channels) = 0
        /\ pc # "panicked"
        /\ (pc # "done" => ENABLED Next)
        /\ (pc = "done" => Len(saved) = 1 /\ EmptySave(1))

NothingWritten(k) == ~saved[k].written /\ fs.outputs = << >>

C11_EmptyInputRemovedIffOption ==
    /\ SilentCompletes
    /\ (Trimmed /\ AllChannelsSilent) => \A k \in 1..Len(saved) : saved[k].result = "ok"
    /\ \A k \in 1..Len(saved) :
           EmptySave(k) => /\ NothingWritten(k)
                           /\ (~fs.input_exists <=> delete_empty)

C11_EmptyInputRemovedUnlessRefused ==
    /\ SilentCompletes
    /\ (Trimmed /\ AllChannelsSilent) =>
           \A k \in 1..Len(saved) :
               saved[k].result = IF delete_empty /\ remove_fails THEN "err" ELSE "ok"
    /\ \A k \in 1..Len(saved) :
           EmptySave(k) => /\ NothingWritten(k)
                           /\ (~fs.input_exists <=> (delete_empty /\ ~remove_fails))

C11_Witness ==
    /\ pc = "done"
    /\ auto_cut
    /\ Len(channels) = 2
    /\ Len(channels[1]) = 2
    /\ AllChannelsSilent
    /\ Len(saved) = 1
    /\ EmptySave(1)
    /\ delete_empty
    /\ ~fs.input_exists

(***************************************************************************)
(* C12.  A file-system failure while deleting a file (the original under   *)
(* delete_original, an empty input under delete-empty) or while creating   *)
(* the output subdirectory is not fatal: the failing operation is a no-op, *)
(* the run does not abort, and the remaining outputs of the file are still *)
(* handed to the save step.  Stated for a file whose name ends in ".wav":  *)
(* with another ending line 392 panics without any file-system failure.    *)
(***************************************************************************)
\* the panic of the filters of try_saving_auto_cuts, before anything is saved
FilterPanicked == has_cut = "panic" /\ Len(saved) = 0

C12_FilesystemFailureNotFatal ==
    wav_suffix =>
        /\ \A k \in 1..Len(saved) : saved[k].result # "panic"
        /\ (pc = "panicked" => FilterPanicked)
        /\ (Ended /\ has_cut \in {"ok", "panic"} /\ ~FilterPanicked) =>
               Len(saved) = Len(silence_ranges.v) + 1

====
